---- MODULE Spec2Model ----
(***************************************************************************)
(* Model of the alerting core of network-monitor, src/python/alert_system.py *)
(* (class AlertSystem): threshold checks, the per-kind cooldown, the        *)
(* dispatch to console / log / email / webhook, the bounded in-memory       *)
(* history and the check cycle of monitor_loop.                             *)
(*                                                                          *)
(* Time is the wall clock in whole seconds (time.time() and the second      *)
(* resolution of datetime.now().strftime).  Percentages are whole percents. *)
(***************************************************************************)
EXTENDS Integers, Sequences, FiniteSets, TLC

VARIABLES
    config,            \* self.config, fixed after __init__
    now,               \* the wall clock
    last_alert_time,   \* self.last_alert_time: dict kind -> time
    alert_history,     \* self.alert_history: list of records
    log_file,          \* the lines appended to self.log_file
    env,               \* environment of the run: channel outcomes and delays
    pc,                \* position of the process in monitor_loop / run_checks
    alerts_triggered,  \* the local list of run_checks
    last_check,        \* the most recent check call: inputs, channel attempts, return value
    mode,              \* how the process was started: "loop", "test" (--test), "dashboard"
    config_file        \* the configuration file on disk

vars == <<config, now, last_alert_time, alert_history, log_file, env,
          pc, alerts_triggered, last_check, mode, config_file>>

(***************************************************************************)
(* Bounds of the model                                                      *)
(***************************************************************************)
MaxTime == 310          \* no cycle starts after this time
MaxFired == 2           \* alerts the environment provokes in one run
MaxLogCalls == 103      \* direct log_alert calls in SpecLog

(***************************************************************************)
(* Program constants                                                        *)
(***************************************************************************)
HistoryCap == 100
DefaultCooldown == 300
DefaultThresholds == [cpu |-> 80, memory |-> 85, disk |-> 90, swap |-> 80]
\* thresholds a user file sets in place of the defaults
UserThresholds == [cpu |-> 50, memory |-> 60, disk |-> 70, swap |-> 10]

\* run_checks: the four metric checks, then services_to_check
services_to_check == <<"nginx", "ssh", "mysql", "postgresql">>
PcStatus == 0
PcCpu == 1
PcMemory == 2
PcDisk == 3
PcSwap == 4
PcService == 5          \* 5..8: services_to_check[pc - 4]
PcSleep == 9
PcCrashed == 10         \* an exception left monitor_loop: the process is dead
PcCall == -1            \* a method called directly on a constructed object
PcExit0 == 11           \* the process has ended with exit code 0
\* monitor.py, monitor(): the pause before the loop, one collection and
\* display, the refresh sleep
PcDashPause == 12
PcDashCollect == 13
PcDashSleep == 14
PcHung == 15            \* blocked for ever inside a call that has no timeout

\* f'SERVICE_{service_name}'
ServiceKey(service_name) ==
    CASE service_name = "nginx" -> "SERVICE_nginx"
      [] service_name = "ssh" -> "SERVICE_ssh"
      [] service_name = "mysql" -> "SERVICE_mysql"
      [] service_name = "postgresql" -> "SERVICE_postgresql"
Kinds == {"CPU", "MEMORY", "DISK", "SWAP"} \cup
         {ServiceKey(services_to_check[i]) : i \in 1..Len(services_to_check)}

(***************************************************************************)
(* Configurations a run can start with: the defaults of load_config, or a   *)
(* user file overriding some top-level keys.                                *)
(***************************************************************************)
ShortCooldown == 150
Cooldowns == {DefaultCooldown, ShortCooldown}
ShortInterval == 150
LongInterval == 400
Intervals == {ShortInterval, LongInterval}
CpuSampleSeconds == 1            \* psutil.cpu_percent(interval=1) blocks that long
Configs ==
    [thresholds : {DefaultThresholds, UserThresholds},
     check_interval : Intervals,
     alert_cooldown : Cooldowns,
     email : [enabled : BOOLEAN],
     webhook : [enabled : BOOLEAN],
     console_alerts : BOOLEAN]

(***************************************************************************)
(* Environment inputs                                                       *)
(***************************************************************************)
ReadingsFor(threshold) == {threshold - 1, threshold, threshold + 1}
SwapTotals == {0, 2048}
SmtpOutcomes == {"ok", "fail"}
WebhookOutcomes == {"200", "non200", "exception", "importerror"}
Delays == {0, 1}                 \* seconds a network exchange takes
Whitespace == {" ", "\n"}
ProbeOutputs == {<<"active", "\n">>, <<"active">>, <<"inactive", "\n">>,
                 <<"unknown", "\n">>, <<>>}
\* the environment of a run: what the SMTP server and the webhook endpoint
\* answer, how long an exchange with them takes, whether the log file can
\* be opened for appending
Envs == [smtp : SmtpOutcomes, wh : WebhookOutcomes, de : Delays, dw : Delays,
         log_writable : BOOLEAN]
QuietEnv == [smtp |-> "ok", wh |-> "200", de |-> 0, dw |-> 0, log_writable |-> TRUE]
\* only the channels a configuration enables have an outcome
EnvFits(e, c) ==
    /\ ~c.email.enabled => e.smtp = QuietEnv.smtp /\ e.de = 0
    /\ ~c.webhook.enabled => e.wh = QuietEnv.wh /\ e.dw = 0
    /\ e.wh = "importerror" => e.dw = 0

\* str.strip(): drop leading and trailing whitespace
RECURSIVE LStrip(_)
LStrip(s) == IF s # <<>> /\ Head(s) \in Whitespace THEN LStrip(Tail(s)) ELSE s
RECURSIVE RStrip(_)
RStrip(s) == IF s # <<>> /\ s[Len(s)] \in Whitespace
             THEN RStrip(SubSeq(s, 1, Len(s) - 1)) ELSE s
Strip(s) == RStrip(LStrip(s))

(***************************************************************************)
(* The object state threaded through the methods                            *)
(***************************************************************************)
Self == [now |-> now, last_alert_time |-> last_alert_time,
         alert_history |-> alert_history, log_file |-> log_file, trace |-> <<>>,
         exc |-> FALSE]        \* exc: an exception is propagating

Attempt(ch, result) == [ch |-> ch, result |-> result]

\* an f-string message: its fixed text and the values formatted into it
Msg(text, arg, reading, threshold) ==
    [text |-> text, arg |-> arg, reading |-> reading, threshold |-> threshold]

\* the cap keeping the oldest records where the code keeps the newest
log_alert_keeps_oldest(s, alert_type, message, level) ==
    LET entry == [timestamp |-> s.now, type |-> alert_type,
                  message |-> message, level |-> level]
        appended == Append(s.alert_history, entry)
    IN [s EXCEPT
          !.log_file = IF env.log_writable THEN Append(@, entry) ELSE @,
          !.trace = Append(@, Attempt("log", IF env.log_writable THEN "ok" ELSE "fail")),
          !.alert_history =
              IF Len(appended) > HistoryCap
              THEN SubSeq(appended, 1, HistoryCap)
              ELSE appended]

\* the clock read a second time for the record of the history
log_alert_restamps(s, alert_type, message, level) ==
    LET entry == [timestamp |-> s.now, type |-> alert_type,
                  message |-> message, level |-> level]
        appended == Append(s.alert_history, [entry EXCEPT !.timestamp = @ + 1])
    IN [s EXCEPT
          !.log_file = IF env.log_writable THEN Append(@, entry) ELSE @,
          !.trace = Append(@, Attempt("log", IF env.log_writable THEN "ok" ELSE "fail")),
          !.alert_history =
              IF Len(appended) > HistoryCap
              THEN SubSeq(appended, Len(appended) - HistoryCap + 1, Len(appended))
              ELSE appended]

\* log_alert(alert_type, message, level)
log_alert(s, alert_type, message, level) ==
    LET entry == [timestamp |-> s.now, type |-> alert_type,
                  message |-> message, level |-> level]
        appended == Append(s.alert_history, entry)
    IN [s EXCEPT
          !.log_file = IF env.log_writable THEN Append(@, entry) ELSE @,
          !.trace = Append(@, Attempt("log", IF env.log_writable THEN "ok" ELSE "fail")),
          !.alert_history =
              IF Len(appended) > HistoryCap
              THEN SubSeq(appended, Len(appended) - HistoryCap + 1, Len(appended))
              ELSE appended]

\* the window compared with > where the code has >=
can_send_alert_strict(s, alert_type) ==
    IF alert_type \notin DOMAIN s.last_alert_time
    THEN TRUE
    ELSE s.now - s.last_alert_time[alert_type] > config.alert_cooldown

\* can_send_alert(alert_type)
can_send_alert(s, alert_type) ==
    IF alert_type \notin DOMAIN s.last_alert_time
    THEN TRUE
    ELSE s.now - s.last_alert_time[alert_type] >= config.alert_cooldown

\* the SMTP exchange without its try/except: a failure propagates
send_email_alert_unguarded(s, subject, message) ==
    IF ~config.email.enabled THEN s
    ELSE LET t == [s EXCEPT !.now = @ + env.de,
                            !.trace = Append(@, Attempt("email", env.smtp))]
         IN IF env.smtp = "ok"
            THEN log_alert(t, "EMAIL", Msg("Email envoye", subject, 0, 0), "INFO")
            ELSE [t EXCEPT !.exc = TRUE]

\* send_email_alert(subject, message)
send_email_alert(s, subject, message) ==
    IF ~config.email.enabled THEN s
    ELSE LET t == [s EXCEPT !.now = @ + env.de,
                            !.trace = Append(@, Attempt("email", env.smtp))]
         IN IF env.smtp = "ok"
            THEN log_alert(t, "EMAIL", Msg("Email envoye", subject, 0, 0), "INFO")
            ELSE log_alert(t, "EMAIL", Msg("Erreur envoi", env.smtp, 0, 0), "ERROR")

\* send_webhook_alert(message)
send_webhook_alert(s, message) ==
    IF ~config.webhook.enabled THEN s
    ELSE IF env.wh = "importerror"
    THEN [s EXCEPT !.trace = Append(@, Attempt("webhook", env.wh))]
    ELSE LET t == [s EXCEPT !.now = @ + env.dw,
                            !.trace = Append(@, Attempt("webhook", env.wh))]
         IN IF env.wh = "200"
            THEN log_alert(t, "WEBHOOK", Msg("Webhook envoye", "", 0, 0), "INFO")
            ELSE t

\* the timestamp never recorded
SetLast_forgets(s, key) == s

\* one timestamp shared by all kinds
SetLast_global(s, key) ==
    [s EXCEPT !.last_alert_time =
        [k \in DOMAIN s.last_alert_time \cup {key} |-> s.now]]

\* every kind stamped by one firing
SetLast_every_kind(s, key) ==
    [s EXCEPT !.last_alert_time = [k \in Kinds |-> s.now]]

\* self.last_alert_time[key] = time.time()
SetLast(s, key) ==
    [s EXCEPT !.last_alert_time =
        [k \in DOMAIN s.last_alert_time \cup {key} |->
            IF k = key THEN s.now ELSE s.last_alert_time[k]]]

\* the cooldown timestamp written before the channels run
Dispatch_stamps_first(s, key, alert_type, level, subject, message) ==
    LET s0 == SetLast(s, key)
        s1 == IF config.console_alerts
              THEN [s0 EXCEPT !.trace = Append(@, Attempt("console", "ok"))]
              ELSE s0
        s2 == log_alert(s1, alert_type, message, level)
        s3 == IF ~s2.exc /\ config.email.enabled
              THEN send_email_alert(s2, subject, message) ELSE s2
        s4 == IF ~s3.exc /\ config.webhook.enabled
              THEN send_webhook_alert(s3, message) ELSE s3
    IN s4

\* the body of a check once the condition is met and can_send_alert allowed
\* it: console, log, email, webhook, then the cooldown timestamp; a statement
\* is skipped when an exception is propagating
Dispatch(s, key, alert_type, level, subject, message) ==
    LET s1 == IF config.console_alerts
              THEN [s EXCEPT !.trace = Append(@, Attempt("console", "ok"))]
              ELSE s
        s2 == log_alert(s1, alert_type, message, level)
        s3 == IF ~s2.exc /\ config.email.enabled
              THEN send_email_alert(s2, subject, message) ELSE s2
        s4 == IF ~s3.exc /\ config.webhook.enabled
              THEN send_webhook_alert(s3, message) ELSE s3
    IN IF s4.exc THEN s4 ELSE SetLast(s4, key)

\* alerts (not channel events) recorded so far
IsAlertRecord(r) == r.type \notin {"EMAIL", "WEBHOOK"}
Fired(hist) == Cardinality({i \in DOMAIN hist : IsAlertRecord(hist[i])})

\* what a check returns and leaves behind; it returns True only when the
\* dispatch ran to its end
Result(s, ret, at) == [state |-> s, ret |-> ret /\ ~s.exc, at |-> at]

\* a suppressed evaluation restarting the window
check_cpu_resets(s, cpu_percent) ==
    LET threshold == config.thresholds.cpu IN
    IF cpu_percent > threshold /\ can_send_alert(s, "CPU")
    THEN Result(Dispatch(s, "CPU", "CPU", "WARNING", "CPU eleve",
                         Msg("CPU eleve", "", cpu_percent, threshold)), TRUE, s.now)
    ELSE IF cpu_percent > threshold
    THEN Result(SetLast(s, "CPU"), FALSE, s.now)
    ELSE Result(s, FALSE, s.now)

\* check_cpu / check_memory / check_disk: reading against threshold, then cooldown
check_cpu(s, cpu_percent) ==
    LET threshold == config.thresholds.cpu IN
    IF cpu_percent > threshold /\ can_send_alert(s, "CPU")
    THEN Result(Dispatch(s, "CPU", "CPU", "WARNING", "CPU eleve",
                         Msg("CPU eleve", "", cpu_percent, threshold)), TRUE, s.now)
    ELSE Result(s, FALSE, s.now)

\* the memory alert logged as CRITICAL
check_memory_critical(s, percent) ==
    LET threshold == config.thresholds.memory IN
    IF percent > threshold /\ can_send_alert(s, "MEMORY")
    THEN Result(Dispatch(s, "MEMORY", "MEMORY", "CRITICAL", "Memoire elevee",
                         Msg("Memoire elevee", "", percent, threshold)), TRUE, s.now)
    ELSE Result(s, FALSE, s.now)

check_memory(s, percent) ==
    LET threshold == config.thresholds.memory IN
    IF percent > threshold /\ can_send_alert(s, "MEMORY")
    THEN Result(Dispatch(s, "MEMORY", "MEMORY", "WARNING", "Memoire elevee",
                         Msg("Memoire elevee", "", percent, threshold)), TRUE, s.now)
    ELSE Result(s, FALSE, s.now)

\* the threshold compared with >= where the code has >
check_disk_ge(s, percent) ==
    LET threshold == config.thresholds.disk IN
    IF percent >= threshold /\ can_send_alert(s, "DISK")
    THEN Result(Dispatch(s, "DISK", "DISK", "CRITICAL", "Disque plein",
                         Msg("Disque plein", "", percent, threshold)), TRUE, s.now)
    ELSE Result(s, FALSE, s.now)

check_disk(s, percent) ==
    LET threshold == config.thresholds.disk IN
    IF percent > threshold /\ can_send_alert(s, "DISK")
    THEN Result(Dispatch(s, "DISK", "DISK", "CRITICAL", "Disque plein",
                         Msg("Disque plein", "", percent, threshold)), TRUE, s.now)
    ELSE Result(s, FALSE, s.now)

\* the swap check without the test of swap.total
check_swap_ignores_total(s, total, percent) ==
    LET threshold == config.thresholds.swap IN
    IF percent > threshold /\ can_send_alert(s, "SWAP")
    THEN Result(Dispatch(s, "SWAP", "SWAP", "WARNING", "SWAP eleve",
                         Msg("SWAP eleve", "", percent, threshold)), TRUE, s.now)
    ELSE Result(s, FALSE, s.now)

check_swap(s, total, percent) ==
    IF total = 0 THEN Result(s, FALSE, s.now)
    ELSE LET threshold == config.thresholds.swap IN
         IF percent > threshold /\ can_send_alert(s, "SWAP")
         THEN Result(Dispatch(s, "SWAP", "SWAP", "WARNING", "SWAP eleve",
                              Msg("SWAP eleve", "", percent, threshold)), TRUE, s.now)
         ELSE Result(s, FALSE, s.now)

\* only the output 'inactive' taken as down
check_service_down_inactive_only(s, service_name, raised, stdout) ==
    IF raised THEN Result(s, FALSE, s.now)
    ELSE LET is_active == Strip(stdout) # <<"inactive">> IN
         IF ~is_active /\ can_send_alert(s, ServiceKey(service_name))
         THEN LET d == Dispatch(s, ServiceKey(service_name), "SERVICE", "CRITICAL",
                                service_name,
                                Msg("Service est arrete", service_name, 0, 0))
              IN IF d.exc THEN Result([d EXCEPT !.exc = FALSE], FALSE, s.now)
                 ELSE Result(d, TRUE, s.now)
         ELSE Result(s, FALSE, s.now)

\* check_service_down(service_name); raised: subprocess.run raised (timeout,
\* no systemctl).  The whole body is inside try/except Exception.
check_service_down(s, service_name, raised, stdout) ==
    IF raised THEN Result(s, FALSE, s.now)
    ELSE LET is_active == Strip(stdout) = <<"active">> IN
         IF ~is_active /\ can_send_alert(s, ServiceKey(service_name))
         THEN LET d == Dispatch(s, ServiceKey(service_name), "SERVICE", "CRITICAL",
                                service_name,
                                Msg("Service est arrete", service_name, 0, 0))
              IN IF d.exc THEN Result([d EXCEPT !.exc = FALSE], FALSE, s.now)
                 ELSE Result(d, TRUE, s.now)
         ELSE Result(s, FALSE, s.now)

(***************************************************************************)
(* Actions                                                                  *)
(***************************************************************************)
TypeOK ==
    /\ config \in [thresholds : {DefaultThresholds, UserThresholds}, check_interval : Nat,
                   alert_cooldown : Nat, email : [enabled : BOOLEAN],
                   webhook : [enabled : BOOLEAN], console_alerts : BOOLEAN]
    /\ env \in Envs
    /\ now \in Nat
    /\ DOMAIN last_alert_time \subseteq Kinds
    /\ pc \in PcCall..PcHung
    /\ mode \in {"loop", "test", "dashboard"}
    /\ Len(alert_history) <= HistoryCap

NoCheck == [check |-> "none", key |-> "none", reading |-> 0, threshold |-> 0,
            total |-> 0, stdout |-> <<>>, raised |-> FALSE, permitted |-> FALSE,
            at |-> 0, trace |-> <<>>, ret |-> FALSE]

\* no file at config_file (Path(config_file).exists() is False), in a
\* directory where it can be created
NoDoc == [syntax_ok |-> FALSE, kind |-> "none", items |-> <<>>]
NoFile == [exists |-> FALSE, writable |-> TRUE, text |-> NoDoc]

\* The runs explored: every channel configuration and environment over one
\* cycle (LongInterval), and runs over several cycles (ShortInterval) with
\* the channels all off or all on.
Scenario(c, e) ==
    /\ EnvFits(e, c)
    /\ c.check_interval = ShortInterval =>
          /\ c.console_alerts /\ e.log_writable
          /\ c.thresholds = DefaultThresholds
          /\ c.email.enabled = c.webhook.enabled
          /\ c.email.enabled => e.smtp = "fail" /\ e.wh = "200"
          /\ e.de = e.dw
    /\ c.check_interval = LongInterval => c.alert_cooldown = DefaultCooldown

Init ==
    /\ config \in Configs
    /\ env \in Envs
    /\ Scenario(config, env)
    /\ now = 0
    /\ last_alert_time = <<>>
    /\ alert_history = <<>>
    /\ log_file = <<>>
    /\ pc = PcStatus
    /\ alerts_triggered = <<>>
    /\ last_check = NoCheck
    /\ mode = "loop"
    /\ config_file = NoFile

\* the environment provokes at most MaxFired alerts in a run
Budget(res) == res.ret => Fired(alert_history) < MaxFired

\* the check entered an SMTP exchange that never returns: smtplib.SMTP is
\* called without a timeout
Blocked(res) ==
    \E i \in DOMAIN res.state.trace : res.state.trace[i] = Attempt("email", "hang")

\* commit the outcome of a check called from run_checks
Commit(res, key, name, reading, threshold, total, raised, stdout) ==
    /\ Budget(res)
    /\ ~Blocked(res)
    /\ now' = res.state.now
    /\ last_alert_time' = res.state.last_alert_time
    /\ alert_history' = res.state.alert_history
    /\ log_file' = res.state.log_file
    /\ last_check' = [check |-> name, key |-> key, reading |-> reading,
                      threshold |-> threshold, total |-> total,
                      stdout |-> stdout, raised |-> raised,
                      permitted |-> can_send_alert([Self EXCEPT !.now = res.at], key),
                      at |-> res.at, trace |-> res.state.trace, ret |-> res.ret]
    /\ pc' = IF res.state.exc THEN PcCrashed ELSE pc + 1
    /\ UNCHANGED <<mode, config_file, config, env>>

\* the metric call at the head of check_cpu / check_memory / check_disk /
\* check_swap raised: nothing in the check catches it
ProbeRaised(s) == Result([s EXCEPT !.exc = TRUE], FALSE, s.now)

\* self.config['thresholds'][metric] where the thresholds object of the
\* configuration has no such key: KeyError, which nothing in the checks or
\* in show_status catches
Metrics == {"cpu", "memory", "disk", "swap"}
Missing(metric) == metric \notin DOMAIN config.thresholds
Threshold(metric) == IF Missing(metric) THEN 0 ELSE config.thresholds[metric]
KeyError(s) == Result([s EXCEPT !.exc = TRUE], FALSE, s.now)

\* show_status: samples the CPU for a second, reads the thresholds of cpu,
\* memory and disk, and that of swap when there is swap, and prints
ShowStatus ==
    /\ pc = PcStatus
    /\ now' = now + CpuSampleSeconds
    /\ \E total \in SwapTotals :
        LET read == {"cpu", "memory", "disk"}
                    \cup (IF total > 0 THEN {"swap"} ELSE {})
            ok == \A metric \in read : ~Missing(metric) IN
        /\ pc' = IF ok THEN PcCpu ELSE PcCrashed
        /\ last_check' = IF ok THEN last_check
                          ELSE [NoCheck EXCEPT !.check = "show_status", !.at = now]
    /\ UNCHANGED <<mode, config_file, config, last_alert_time, alert_history, log_file, env,
                   alerts_triggered>>

CheckCpu ==
    /\ pc = PcCpu
    /\ \E raised \in BOOLEAN, r \in ReadingsFor(Threshold("cpu")) \cup {0} :
        LET s == [Self EXCEPT !.now = @ + CpuSampleSeconds]
            res == IF raised THEN ProbeRaised(s)
                   ELSE IF Missing("cpu") THEN KeyError(s) ELSE check_cpu(s, r) IN
        /\ (raised \/ Missing("cpu")) <=> r = 0
        /\ Commit(res, "CPU", "CPU", r, Threshold("cpu"), 1, raised, <<>>)
        /\ alerts_triggered' = IF res.ret THEN <<"CPU">> ELSE <<>>

CheckMemory ==
    /\ pc = PcMemory
    /\ \E raised \in BOOLEAN, r \in ReadingsFor(Threshold("memory")) \cup {0} :
        LET res == IF raised THEN ProbeRaised(Self)
                   ELSE IF Missing("memory") THEN KeyError(Self) ELSE check_memory(Self, r) IN
        /\ (raised \/ Missing("memory")) <=> r = 0
        /\ Commit(res, "MEMORY", "MEMORY", r, Threshold("memory"), 1, raised, <<>>)
        /\ alerts_triggered' = IF res.ret THEN Append(alerts_triggered, "MEMORY")
                               ELSE alerts_triggered

CheckDisk ==
    /\ pc = PcDisk
    /\ \E raised \in BOOLEAN, r \in ReadingsFor(Threshold("disk")) \cup {0} :
        LET res == IF raised THEN ProbeRaised(Self)
                   ELSE IF Missing("disk") THEN KeyError(Self) ELSE check_disk(Self, r) IN
        /\ (raised \/ Missing("disk")) <=> r = 0
        /\ Commit(res, "DISK", "DISK", r, Threshold("disk"), 1, raised, <<>>)
        /\ alerts_triggered' = IF res.ret THEN Append(alerts_triggered, "DISK")
                               ELSE alerts_triggered

CheckSwap ==
    /\ pc = PcSwap
    /\ \E raised \in BOOLEAN, total \in SwapTotals,
          r \in ReadingsFor(Threshold("swap")) \cup {0} :
        LET missing == total # 0 /\ Missing("swap")
            res == IF raised THEN ProbeRaised(Self)
                   ELSE IF missing THEN KeyError(Self) ELSE check_swap(Self, total, r) IN
        /\ (raised \/ Missing("swap")) <=> r = 0
        /\ raised => total = 0
        /\ Commit(res, "SWAP", "SWAP", r, Threshold("swap"), total, raised, <<>>)
        /\ alerts_triggered' = IF res.ret THEN Append(alerts_triggered, "SWAP")
                               ELSE alerts_triggered

CheckService ==
    /\ pc \in PcService..(PcSleep - 1)
    /\ \E raised \in BOOLEAN, stdout \in ProbeOutputs :
        LET service == services_to_check[pc - PcService + 1]
            res == check_service_down(Self, service, raised, stdout) IN
        /\ raised => stdout = <<>>
        /\ Commit(res, ServiceKey(service), "SERVICE", 0, 0, 1, raised, stdout)
        /\ alerts_triggered' = IF res.ret
                               THEN Append(alerts_triggered, ServiceKey(service))
                               ELSE alerts_triggered

\* monitor_loop: time.sleep(interval), then the next cycle
Sleep ==
    /\ pc = PcSleep
    /\ mode = "loop"
    /\ now + config.check_interval <= MaxTime
    /\ now' = now + config.check_interval
    /\ pc' = PcStatus
    /\ UNCHANGED <<mode, config_file, config, last_alert_time, alert_history, log_file, env,
                   alerts_triggered, last_check>>

Next == ShowStatus \/ CheckCpu \/ CheckMemory \/ CheckDisk \/ CheckSwap
        \/ CheckService \/ Sleep

Spec == Init /\ [][Next]_vars

(***************************************************************************)
(* can_send_alert as a function of the clock, the recorded time and the    *)
(* window: a constructed object with some recorded times, queried as time  *)
(* passes.                                                                  *)
(***************************************************************************)
MaxWindow == 3
MaxT0 == 2
MaxClock == 7
QueriedKinds == {"CPU", "MEMORY", "SERVICE_mysql"}
DefaultConfig ==
    [thresholds |-> DefaultThresholds, check_interval |-> 60,
     alert_cooldown |-> DefaultCooldown, email |-> [enabled |-> FALSE],
     webhook |-> [enabled |-> FALSE], console_alerts |-> TRUE]

InitCan ==
    /\ config \in {[DefaultConfig EXCEPT !.alert_cooldown = w] : w \in 1..MaxWindow}
    /\ env = QuietEnv
    /\ now = 0
    /\ \E recorded \in SUBSET {"CPU", "SERVICE_mysql"} :
          last_alert_time \in [recorded -> 0..MaxT0]
    /\ alert_history = <<>>
    /\ log_file = <<>>
    /\ pc = PcCall
    /\ alerts_triggered = <<>>
    /\ last_check = NoCheck
    /\ mode = "loop"
    /\ config_file = NoFile

CanSendCall ==
    /\ pc = PcCall
    /\ \E kind \in QueriedKinds :
          last_check' = [NoCheck EXCEPT !.check = "can_send_alert", !.key = kind,
                                        !.at = now,
                                        !.permitted = can_send_alert(Self, kind),
                                        !.ret = can_send_alert(Self, kind)]
    /\ UNCHANGED <<mode, config_file, config, now, last_alert_time, alert_history, log_file, env,
                   pc, alerts_triggered>>

Tick ==
    /\ pc = PcCall
    /\ now < MaxClock
    /\ now' = now + 1
    /\ UNCHANGED <<mode, config_file, config, last_alert_time, alert_history, log_file, env,
                   pc, alerts_triggered, last_check>>

NextCan == CanSendCall \/ Tick

SpecCan == InitCan /\ [][NextCan]_vars

\* C1: can_send_alert(kind) is true when nothing is recorded for kind; with a
\* recorded time T0 and window > 0 it is false at every now < T0 + window and
\* true at now = T0 + window and at every later time.
C1_CanSendAlertCooldown ==
    last_check.check = "can_send_alert" =>
        LET kind == last_check.key
            window == config.alert_cooldown
        IN IF kind \notin DOMAIN last_alert_time
           THEN last_check.ret
           ELSE LET T0 == last_alert_time[kind] IN
                /\ last_check.at < T0 + window => ~last_check.ret
                /\ last_check.at >= T0 + window => last_check.ret

\* a query exactly at the end of the window, answered true
C1_Witness ==
    /\ last_check.check = "can_send_alert"
    /\ last_check.key \in DOMAIN last_alert_time
    /\ last_check.at = last_alert_time[last_check.key] + config.alert_cooldown
    /\ last_check.ret


(***************************************************************************)
(* log_alert called directly, again and again: the n-th call is made at     *)
(* second n with message number n, the callers of log_alert taking turns.   *)
(***************************************************************************)
LogCallers == <<[type |-> "CPU", level |-> "WARNING"],
                [type |-> "DISK", level |-> "CRITICAL"],
                [type |-> "EMAIL", level |-> "ERROR"],
                [type |-> "SERVICE", level |-> "CRITICAL"],
                [type |-> "WEBHOOK", level |-> "INFO"]>>

InitLog ==
    /\ config = DefaultConfig
    /\ env \in {e \in Envs : EnvFits(e, DefaultConfig)}
    /\ now = 0
    /\ last_alert_time = <<>>
    /\ alert_history = <<>>
    /\ log_file = <<>>
    /\ pc = PcCall
    /\ alerts_triggered = <<>>
    /\ last_check = NoCheck
    /\ mode = "loop"
    /\ config_file = NoFile

LogAlertCall ==
    /\ pc = PcCall
    /\ now < MaxLogCalls
    /\ LET n == now + 1
           caller == LogCallers[(now % Len(LogCallers)) + 1]
           t == log_alert([Self EXCEPT !.now = n], caller.type,
                          Msg("call", "", n, 0), caller.level)
       IN /\ now' = n
          /\ alert_history' = t.alert_history
          /\ log_file' = t.log_file
          /\ last_check' = [NoCheck EXCEPT !.check = "log_alert", !.at = n,
                                           !.trace = t.trace]
    /\ UNCHANGED <<mode, config_file, config, last_alert_time, env, pc, alerts_triggered>>

NextLog == LogAlertCall

SpecLog == InitLog /\ [][NextLog]_vars

(***************************************************************************)
(* load_config and create_example_config: a process started on a           *)
(* configuration file, possibly several times in a row on the same path.   *)
(* A JSON document is its top-level members in order; a document that does *)
(* not parse has syntax_ok FALSE.                                           *)
(***************************************************************************)
MaxItems == 2           \* top-level elements of a user's document
DefaultInterval == 60

default_config ==
    [thresholds |-> DefaultThresholds, check_interval |-> DefaultInterval,
     alert_cooldown |-> DefaultCooldown,
     email |-> [enabled |-> FALSE, password |-> ""],
     webhook |-> [enabled |-> FALSE, url |-> ""],
     log_file |-> "alerts.log", console_alerts |-> TRUE]

\* the keys of the dictionaries, in insertion order
ConfigKeys == <<"thresholds", "check_interval", "alert_cooldown", "email",
                "webhook", "log_file", "console_alerts">>

\* an element of a document: a key/value member, or something else
Member(key, val) == [pair |-> TRUE, key |-> key, val |-> val]
Junk == [pair |-> FALSE, key |-> "", val |-> 1]

\* json.dump(c, f): one member per key, in insertion order
json_dump(c) ==
    [syntax_ok |-> TRUE, kind |-> "object",
     items |-> [i \in 1..Len(ConfigKeys) |-> Member(ConfigKeys[i], c[ConfigKeys[i]])]]

\* the example with a threshold that is not the default
example_config_other_cpu ==
    [thresholds |-> [DefaultThresholds EXCEPT !.cpu = 75],
     check_interval |-> DefaultInterval,
     alert_cooldown |-> DefaultCooldown,
     email |-> [enabled |-> FALSE, password |-> "votre_mot_de_passe"],
     webhook |-> [enabled |-> FALSE,
                  url |-> "https://hooks.slack.com/services/YOUR/WEBHOOK/URL"],
     log_file |-> "alerts.log", console_alerts |-> TRUE]

example_config ==
    [thresholds |-> DefaultThresholds,
     check_interval |-> DefaultInterval,
     alert_cooldown |-> DefaultCooldown,
     email |-> [enabled |-> FALSE, password |-> "votre_mot_de_passe"],
     webhook |-> [enabled |-> FALSE,
                  url |-> "https://hooks.slack.com/services/YOUR/WEBHOOK/URL"],
     log_file |-> "alerts.log", console_alerts |-> TRUE]

\* create_example_config: writes the example unless open(..., 'w') fails
create_example_config(file) ==
    IF file.writable
    THEN [file EXCEPT !.exists = TRUE, !.text = json_dump(example_config)]
    ELSE file

\* default_config.update(user_config): the members are applied one at a
\* time, in order; an element that is not a key/value pair raises, with the
\* members before it already applied
RECURSIVE update(_, _)
update(c, items) ==
    IF Len(items) = 0 THEN [config |-> c, raised |-> FALSE]
    ELSE IF ~Head(items).pair THEN [config |-> c, raised |-> TRUE]
    ELSE update([c EXCEPT ![Head(items).key] = Head(items).val], Tail(items))

\* load_config(config_file); raised: the except branch was taken
load_config(file) ==
    IF file.exists
    THEN IF ~file.text.syntax_ok
         THEN [config |-> default_config, raised |-> TRUE, file |-> file]
         ELSE IF file.text.kind = "scalar"
         THEN [config |-> default_config, raised |-> TRUE, file |-> file]
         ELSE LET u == update(default_config, file.text.items)
              IN [config |-> u.config, raised |-> u.raised, file |-> file]
    ELSE [config |-> default_config, raised |-> FALSE,
          file |-> create_example_config(file)]

\* what a user's file sets
Overrides ==
    {Member("alert_cooldown", 0), Member("alert_cooldown", ShortCooldown),
     Member("check_interval", ShortInterval), Member("thresholds", UserThresholds)}

ItemSeqs(S) == UNION {[1..n -> S] : n \in 0..MaxItems}

DistinctKeys(items) ==
    \A i, j \in DOMAIN items : i # j => items[i].key # items[j].key

\* documents: objects of overrides, arrays that may hold members and other
\* elements, a scalar; each also cut short so that it does not parse
Docs ==
    {[syntax_ok |-> ok, kind |-> "object", items |-> it] :
        ok \in BOOLEAN, it \in {s \in ItemSeqs(Overrides) : DistinctKeys(s)}}
    \cup {[syntax_ok |-> ok, kind |-> "array", items |-> it] :
        ok \in BOOLEAN, it \in ItemSeqs(Overrides \cup {Junk})}
    \cup {[syntax_ok |-> TRUE, kind |-> "scalar", items |-> <<>>]}

ConfigFiles ==
    {[exists |-> TRUE, writable |-> w, text |-> d] : w \in BOOLEAN, d \in Docs}
    \cup {[exists |-> FALSE, writable |-> w, text |-> NoDoc] : w \in BOOLEAN}

InitConfig ==
    /\ config = default_config
    /\ env = QuietEnv
    /\ now = 0
    /\ last_alert_time = <<>>
    /\ alert_history = <<>>
    /\ log_file = <<>>
    /\ pc = PcCall
    /\ alerts_triggered = <<>>
    /\ last_check = NoCheck
    /\ mode = "loop"
    /\ config_file \in ConfigFiles

\* AlertSystem(config_file): __init__ calls load_config
LoadConfig ==
    /\ pc = PcCall
    /\ LET res == load_config(config_file) IN
        /\ config' = res.config
        /\ config_file' = res.file
        /\ last_check' = [NoCheck EXCEPT !.check = "load_config",
                                         !.raised = res.raised]
    /\ UNCHANGED <<now, last_alert_time, alert_history, log_file, env, pc,
                   alerts_triggered, mode>>

NextConfig == LoadConfig

SpecConfig == InitConfig /\ [][NextConfig]_vars

(***************************************************************************)
(* The operator's interrupt (Ctrl+C, KeyboardInterrupt in the main thread)  *)
(* arriving anywhere after startup, in the alert system started as a loop   *)
(* or with --test, and in the dashboard of monitor.py.                      *)
(***************************************************************************)
InitialPause == 2
DashInterval == 3

\* statements of a dispatch completed when the interrupt arrives: the
\* console print, log_alert, the email, the webhook
Cuts == 1..4

\* a dispatch cut short by KeyboardInterrupt, which no `except Exception`
\* of the channels catches
DispatchCut(s, alert_type, level, subject, message, cut) ==
    LET s1 == IF config.console_alerts
              THEN [s EXCEPT !.trace = Append(@, Attempt("console", "ok"))]
              ELSE s
        s2 == IF cut >= 2 THEN log_alert(s1, alert_type, message, level) ELSE s1
        s3 == IF cut >= 3 /\ config.email.enabled
              THEN send_email_alert(s2, subject, message) ELSE s2
        s4 == IF cut >= 4 /\ config.webhook.enabled
              THEN send_webhook_alert(s3, message) ELSE s3
    IN [s4 EXCEPT !.exc = TRUE]

\* the alert that the check at position p dispatches
AlertAt(p) ==
    CASE p = PcCpu ->
           [key |-> "CPU", type |-> "CPU", level |-> "WARNING",
            subject |-> "CPU eleve",
            message |-> Msg("CPU eleve", "", config.thresholds.cpu + 1,
                            config.thresholds.cpu)]
      [] p = PcMemory ->
           [key |-> "MEMORY", type |-> "MEMORY", level |-> "WARNING",
            subject |-> "Memoire elevee",
            message |-> Msg("Memoire elevee", "", config.thresholds.memory + 1,
                            config.thresholds.memory)]
      [] p = PcDisk ->
           [key |-> "DISK", type |-> "DISK", level |-> "CRITICAL",
            subject |-> "Disque plein",
            message |-> Msg("Disque plein", "", config.thresholds.disk + 1,
                            config.thresholds.disk)]
      [] p = PcSwap ->
           [key |-> "SWAP", type |-> "SWAP", level |-> "WARNING",
            subject |-> "SWAP eleve",
            message |-> Msg("SWAP eleve", "", config.thresholds.swap + 1,
                            config.thresholds.swap)]
      [] OTHER ->
           [key |-> ServiceKey(services_to_check[p - PcService + 1]),
            type |-> "SERVICE", level |-> "CRITICAL",
            subject |-> services_to_check[p - PcService + 1],
            message |-> Msg("Service est arrete",
                            services_to_check[p - PcService + 1], 0, 0)]

\* the try of monitor_loop encloses show_status, run_checks and the sleep;
\* the --test branch of __main__ has no handler; the try of monitor()
\* begins after the initial pause
Handled(m, p) == m = "loop" \/ (m = "dashboard" /\ p # PcDashPause)

InitInt ==
    /\ mode \in {"loop", "test", "dashboard"}
    /\ config \in Configs
    /\ env \in Envs
    /\ Scenario(config, env)
    /\ mode = "loop" => config.check_interval = ShortInterval
    /\ mode = "test" =>
          /\ config.check_interval = LongInterval
          /\ config.thresholds = DefaultThresholds
          /\ config.console_alerts
    /\ mode = "dashboard" =>
          /\ config = [DefaultConfig EXCEPT !.check_interval = LongInterval]
          /\ env = QuietEnv
    /\ now = 0
    /\ last_alert_time = <<>>
    /\ alert_history = <<>>
    /\ log_file = <<>>
    /\ pc = IF mode = "dashboard" THEN PcDashPause ELSE PcStatus
    /\ alerts_triggered = <<>>
    /\ last_check = NoCheck
    /\ config_file = NoFile

\* the interrupt arrives outside any dispatch: in show_status, in a probe,
\* in a sleep, in the dashboard's collection and display
Interrupt ==
    /\ \/ mode = "loop" /\ pc \in PcStatus..PcSleep
       \/ mode = "test" /\ pc \in PcStatus..(PcSleep - 1)
       \/ mode = "dashboard" /\ pc \in PcDashPause..PcDashSleep
    /\ pc' = IF Handled(mode, pc) THEN PcExit0 ELSE PcCrashed
    /\ last_check' = [NoCheck EXCEPT !.check = "KeyboardInterrupt", !.at = now]
    /\ UNCHANGED <<mode, config_file, config, now, last_alert_time, alert_history,
                   log_file, env, alerts_triggered>>

\* the interrupt arrives inside the dispatch of the check at pc
InterruptDispatch ==
    /\ mode \in {"loop", "test"}
    /\ pc \in PcCpu..(PcSleep - 1)
    /\ can_send_alert(Self, AlertAt(pc).key)
    /\ \E cut \in Cuts :
        LET a == AlertAt(pc)
            d == DispatchCut(Self, a.type, a.level, a.subject, a.message, cut) IN
        /\ now' = d.now
        /\ alert_history' = d.alert_history
        /\ log_file' = d.log_file
        /\ last_check' = [NoCheck EXCEPT !.check = "KeyboardInterrupt",
                                         !.key = a.key, !.at = now,
                                         !.permitted = TRUE, !.trace = d.trace]
    /\ pc' = IF Handled(mode, pc) THEN PcExit0 ELSE PcCrashed
    /\ UNCHANGED <<mode, config_file, config, last_alert_time, env, alerts_triggered>>

\* __main__ with --test: after run_checks the result is printed and the
\* script ends
TestDone ==
    /\ mode = "test"
    /\ pc = PcSleep
    /\ pc' = PcExit0
    /\ UNCHANGED <<mode, config_file, config, now, last_alert_time, alert_history,
                   log_file, env, alerts_triggered, last_check>>

\* monitor(): time.sleep(2) before the try
DashPause ==
    /\ pc = PcDashPause
    /\ now' = now + InitialPause
    /\ pc' = PcDashCollect
    /\ UNCHANGED <<mode, config_file, config, last_alert_time, alert_history,
                   log_file, env, alerts_triggered, last_check>>

\* get_cpu_info (a one-second sample), the other collections, display_dashboard
DashCollect ==
    /\ pc = PcDashCollect
    /\ now' = now + CpuSampleSeconds
    /\ pc' = PcDashSleep
    /\ UNCHANGED <<mode, config_file, config, last_alert_time, alert_history,
                   log_file, env, alerts_triggered, last_check>>

\* time.sleep(interval)
DashSleep ==
    /\ pc = PcDashSleep
    /\ now + DashInterval <= MaxTime
    /\ now' = now + DashInterval
    /\ pc' = PcDashCollect
    /\ UNCHANGED <<mode, config_file, config, last_alert_time, alert_history,
                   log_file, env, alerts_triggered, last_check>>

NextInt == ShowStatus \/ CheckCpu \/ CheckMemory \/ CheckDisk \/ CheckSwap
           \/ CheckService \/ Sleep \/ TestDone \/ Interrupt
           \/ InterruptDispatch \/ DashPause \/ DashCollect \/ DashSleep

SpecInt == InitInt /\ [][NextInt]_vars

(***************************************************************************)
(* The loop under fairness, with an SMTP server that may accept the        *)
(* connection and then stop responding.                                    *)
(***************************************************************************)
InitLive ==
    /\ mode = "loop"
    /\ config \in Configs
    /\ config.check_interval = ShortInterval
    /\ config.thresholds = DefaultThresholds
    /\ config.console_alerts
    /\ config.alert_cooldown = DefaultCooldown
    /\ config.email.enabled /\ ~config.webhook.enabled
    /\ env \in [smtp : {"fail", "hang"}, wh : WebhookOutcomes,
                 de : Delays, dw : Delays, log_writable : {TRUE}]
    /\ EnvFits(env, config)
    /\ env.de = 0
    /\ now = 0
    /\ last_alert_time = <<>>
    /\ alert_history = <<>>
    /\ log_file = <<>>
    /\ pc = PcStatus
    /\ alerts_triggered = <<>>
    /\ last_check = NoCheck
    /\ config_file = NoFile

\* a firing check reaches send_email_alert and smtplib never returns: the
\* alert is printed and logged, nothing after the email is ever executed
HangInEmail ==
    /\ pc \in PcCpu..(PcSleep - 1)
    /\ config.email.enabled
    /\ env.smtp = "hang"
    /\ LET a == AlertAt(pc)
           s == IF pc = PcCpu THEN [Self EXCEPT !.now = @ + CpuSampleSeconds] ELSE Self
           d == DispatchCut(s, a.type, a.level, a.subject, a.message, 2) IN
        /\ can_send_alert(s, a.key)
        /\ Fired(alert_history) < MaxFired
        /\ now' = d.now
        /\ alert_history' = d.alert_history
        /\ log_file' = d.log_file
        /\ last_check' = [NoCheck EXCEPT !.check = a.type, !.key = a.key,
                                         !.at = s.now, !.permitted = TRUE,
                                         !.trace = Append(d.trace, Attempt("email", "hang"))]
    /\ pc' = PcHung
    /\ UNCHANGED <<mode, config_file, config, last_alert_time, env, alerts_triggered>>

NextLive == ShowStatus \/ CheckCpu \/ CheckMemory \/ CheckDisk \/ CheckSwap
            \/ CheckService \/ Sleep \/ HangInEmail

\* the process is always scheduled: whatever step it can take, it takes
SpecLive == InitLive /\ [][NextLive]_vars /\ WF_vars(NextLive)

(***************************************************************************)
(* A process started with --test on a configuration file that is a JSON    *)
(* object giving only some of the options: load_config, then one cycle.    *)
(***************************************************************************)
\* a thresholds object naming only the metrics of D
ThresholdsOn(D) == [metric \in D |-> UserThresholds[metric]]

\* what a partial file gives: some thresholds, a cooldown, an email or a
\* webhook object that only enables the channel
PartialOptions ==
    {Member("thresholds", ThresholdsOn(D)) : D \in SUBSET Metrics \ {{}}}
    \cup {Member("alert_cooldown", ShortCooldown)}
    \cup {Member("email", [enabled |-> TRUE])}
    \cup {Member("webhook", [enabled |-> TRUE])}

KeyRank(key) == CHOOSE i \in 1..Len(ConfigKeys) : ConfigKeys[i] = key

\* objects of at most MaxItems members, each key at most once
PartialDocs ==
    {[syntax_ok |-> TRUE, kind |-> "object", items |-> it] :
        it \in {s \in ItemSeqs(PartialOptions) :
                  \A i, j \in DOMAIN s : i < j => KeyRank(s[i].key) < KeyRank(s[j].key)}}

\* the values a document gives for a top-level key
Given(doc, key) ==
    {doc.items[i].val : i \in {j \in DOMAIN doc.items : doc.items[j].key = key}}

\* An email object without 'from', 'to' or the server makes the KeyError of
\* send_email_alert's try fail the exchange at once; a webhook object
\* without 'url' does the same in send_webhook_alert, unless the import of
\* requests has failed before.
InitPartial ==
    /\ mode = "test"
    /\ config_file \in {[exists |-> TRUE, writable |-> TRUE, text |-> d] : d \in PartialDocs}
    /\ config = default_config
    /\ env \in Envs
    /\ EnvFits(env, load_config(config_file).config)
    /\ Given(config_file.text, "email") # {} => env.smtp = "fail" /\ env.de = 0
    /\ Given(config_file.text, "webhook") # {} =>
          env.wh \in {"exception", "importerror"} /\ env.dw = 0
    /\ now = 0
    /\ last_alert_time = <<>>
    /\ alert_history = <<>>
    /\ log_file = <<>>
    /\ pc = PcCall
    /\ alerts_triggered = <<>>
    /\ last_check = NoCheck

\* __main__: the object is constructed, then the cycle begins
StartCycle ==
    /\ pc = PcCall
    /\ last_check.check = "load_config"
    /\ pc' = PcStatus
    /\ UNCHANGED <<mode, config_file, config, now, last_alert_time, alert_history,
                   log_file, env, alerts_triggered, last_check>>

NextPartial == LoadConfig \/ StartCycle \/ ShowStatus \/ CheckCpu \/ CheckMemory
               \/ CheckDisk \/ CheckSwap \/ CheckService \/ TestDone

SpecPartial == InitPartial /\ [][NextPartial]_vars

(***************************************************************************)
(* Vocabulary of the properties                                             *)
(***************************************************************************)
\* this step is one check of run_checks; last_check' describes it
CheckStep == pc \in PcCpu..(PcSleep - 1) /\ pc' # pc

\* the outputs of `systemctl is-active` that say the unit is active
HealthyOutputs == {<<"active">>, <<"active", "\n">>}

\* the alert condition of a check, read off the probe's answer
ConditionMet(lc) ==
    IF lc.check = "SERVICE"
    THEN ~lc.raised /\ lc.stdout \notin HealthyOutputs
    ELSE ~lc.raised /\ lc.total # 0 /\ lc.reading > lc.threshold

\* two records of the same monitored condition
SameKind(r1, r2) == r1.type = r2.type /\ r1.message.arg = r2.message.arg

Attempted(ch) == \E i \in DOMAIN last_check.trace : last_check.trace[i].ch = ch
AttemptedWith(ch, result) ==
    \E i \in DOMAIN last_check.trace : last_check.trace[i] = Attempt(ch, result)

ApartByCooldown(records) ==
    \A i, j \in DOMAIN records :
        (/\ i < j
         /\ IsAlertRecord(records[i]) /\ IsAlertRecord(records[j])
         /\ SameKind(records[i], records[j]))
        => records[j].timestamp - records[i].timestamp >= config.alert_cooldown

\* C2: two records written for the same kind by the checks, in the history or in
\* the log, are at least alert_cooldown seconds apart, also when a dispatch
\* takes time.
C2_SameKindAlertsCooldownApart ==
    ApartByCooldown(alert_history) /\ ApartByCooldown(log_file)

\* the same kind recorded twice, with network exchanges that took time
C2_Witness ==
    /\ env.de > 0
    /\ \E i, j \in DOMAIN alert_history :
        /\ i < j
        /\ IsAlertRecord(alert_history[i]) /\ IsAlertRecord(alert_history[j])
        /\ SameKind(alert_history[i], alert_history[j])

\* C3: a check whose condition is met inside the window of its kind returns
\* False, attempts no channel and leaves last_alert_time, alert_history and the
\* log unchanged; the window runs from the recorded firing time T0, so the
\* check fires again once now - T0 >= alert_cooldown, whatever was evaluated
\* in between.
C3_SuppressedCheckChangesNothing ==
    [][(CheckStep /\ ConditionMet(last_check')
          /\ last_check'.key \in DOMAIN last_alert_time)
       => IF last_check'.at - last_alert_time[last_check'.key] < config.alert_cooldown
          THEN /\ ~last_check'.ret
               /\ last_check'.trace = <<>>
               /\ UNCHANGED <<last_alert_time, alert_history, log_file>>
          ELSE /\ last_check'.ret
               /\ last_alert_time'[last_check'.key] >= last_check'.at]_vars

\* a check with its condition met, suppressed inside the default window
C3_Witness ==
    /\ config.alert_cooldown = DefaultCooldown
    /\ ConditionMet(last_check)
    /\ ~last_check.ret
    /\ last_check.key \in DOMAIN last_alert_time
    /\ last_check.at > last_alert_time[last_check.key]
    /\ last_check.at - last_alert_time[last_check.key] < DefaultCooldown

\* C4: a firing of kind K writes last_alert_time[K] only: every other kind keeps
\* its entry (or its absence), so can_send_alert answers the same for it before
\* and after.
C4_FiringWritesOnlyItsKind ==
    [][(CheckStep /\ last_check'.ret)
       => /\ last_check'.key \in DOMAIN last_alert_time'
          /\ \A k \in Kinds \ {last_check'.key} :
                /\ k \in DOMAIN last_alert_time' <=> k \in DOMAIN last_alert_time
                /\ k \in DOMAIN last_alert_time
                     => last_alert_time'[k] = last_alert_time[k]
                /\ \A t \in {now', now' + config.alert_cooldown} :
                     can_send_alert([Self EXCEPT !.now = t,
                                                 !.last_alert_time = last_alert_time'], k)
                       = can_send_alert([Self EXCEPT !.now = t], k)]_vars

\* one service fired while another service has an entry
C4_Witness ==
    /\ last_check.ret
    /\ last_check.key = "SERVICE_ssh"
    /\ "SERVICE_nginx" \in DOMAIN last_alert_time

\* C5: check_cpu, check_memory, check_disk and check_swap (swap total > 0), with
\* no cooldown entry for the kind, fire if and only if reading > threshold.
C5_FiresIffReadingAboveThreshold ==
    [][(/\ CheckStep
        /\ pc \in PcCpu..PcSwap
        /\ last_check'.total # 0
        /\ last_check'.key \notin DOMAIN last_alert_time)
       => (last_check'.ret <=> last_check'.reading > last_check'.threshold)]_vars

\* a reading equal to the threshold, nothing recorded for the kind, no alert
C5_Witness ==
    /\ last_check.check = "DISK"
    /\ last_check.reading = last_check.threshold
    /\ "DISK" \notin DOMAIN last_alert_time
    /\ ~last_check.ret

\* C6: with a total swap capacity of zero check_swap returns False and leaves
\* last_alert_time, alert_history and the log unchanged, for every reading.
C6_NoSwapNeverFires ==
    [][(CheckStep /\ pc = PcSwap /\ last_check'.total = 0)
       => /\ ~last_check'.ret
          /\ last_check'.trace = <<>>
          /\ UNCHANGED <<last_alert_time, alert_history, log_file>>]_vars

\* swap total zero, a reading above the threshold, nothing recorded for SWAP
C6_Witness ==
    /\ last_check.check = "SWAP"
    /\ last_check.total = 0
    /\ last_check.reading > last_check.threshold
    /\ "SWAP" \notin DOMAIN last_alert_time

\* C7: check_service_down fires no alert when the probe says active; for any
\* other output, when the cooldown permits, it fires and records the alert
\* with level CRITICAL.
C7_OnlyActiveIsHealthy ==
    (last_check.check = "SERVICE" /\ ~last_check.raised) =>
        IF last_check.stdout \in HealthyOutputs
        THEN ~last_check.ret /\ last_check.trace = <<>>
        ELSE last_check.permitted =>
               /\ last_check.ret
               /\ \E i \in DOMAIN alert_history :
                    /\ alert_history[i].type = "SERVICE"
                    /\ ServiceKey(alert_history[i].message.arg) = last_check.key
                    /\ alert_history[i].timestamp = last_check.at
                    /\ alert_history[i].level = "CRITICAL"

\* the probe answered unknown for mysql and the alert fired
C7_Witness ==
    /\ last_check.check = "SERVICE"
    /\ last_check.key = "SERVICE_mysql"
    /\ last_check.stdout = <<"unknown", "\n">>
    /\ last_check.ret

\* C8: after n calls of log_alert the history holds min(n, 100) records, the
\* most recent ones in insertion order: calls n - len + 1 .. n.
C8_HistoryKeepsLast100 ==
    LET n == now
        len == Len(alert_history)
    IN /\ len = (IF n <= HistoryCap THEN n ELSE HistoryCap)
       /\ \A i \in 1..len : alert_history[i].message.reading = n - len + i

\* the 101st insertion evicted record 1 and kept 2..101
C8_Witness ==
    /\ now = HistoryCap + 1
    /\ Len(alert_history) = HistoryCap
    /\ alert_history[1].message.reading = 2
    /\ alert_history[HistoryCap].message.reading = HistoryCap + 1

\* C9: the history holds the fired alerts and nothing else: in the first cycle
\* it has as many records as run_checks has kinds in its result so far, under
\* every channel configuration.
C9_HistoryHoldsOnlyFiredAlerts ==
    (pc \in PcMemory..PcSleep /\ now < config.check_interval)
        => Len(alert_history) = Len(alerts_triggered)

\* C10: once a dispatch has begun (its log entry attempted), no channel failure
\* raises out of the check and every enabled channel is attempted: the check
\* returns True, the alert's record is in the history, email is attempted when
\* enabled and the webhook is attempted when enabled.
C10_ChannelFailuresIsolated ==
    Attempted("log") =>
        /\ pc # PcCrashed
        /\ last_check.ret
        /\ \E i \in DOMAIN alert_history :
             IsAlertRecord(alert_history[i]) /\ alert_history[i].timestamp = last_check.at
        /\ env.log_writable =>
             \E i \in DOMAIN log_file :
                IsAlertRecord(log_file[i]) /\ log_file[i].timestamp = last_check.at
        /\ config.email.enabled => Attempted("email")
        /\ config.webhook.enabled => Attempted("webhook")

\* a dispatch in which the log write, the email and the webhook all failed
C10_Witness ==
    /\ AttemptedWith("log", "fail")
    /\ AttemptedWith("email", "fail")
    /\ AttemptedWith("webhook", "exception")
    /\ last_check.ret

\* C11: no probe failure is fatal: when the metric source raises in the CPU,
\* memory, disk or swap check, or the service probe raises or times out, the
\* check fires no alert, run_checks goes on to the next check and
\* monitor_loop continues.
C11_ProbeFailureNotFatal ==
    [][(CheckStep /\ last_check'.raised)
       => /\ ~last_check'.ret
          /\ last_check'.trace = <<>>
          /\ pc' = pc + 1]_vars

\* this step is one call of load_config
LoadStep == pc = PcCall /\ last_check'.check = "load_config"

\* C12: load_config never raises.  On an absent file it returns the defaults
\* and, when the path can be written, leaves the example file there; on a
\* file whose loading fails (the error is reported) it returns exactly the
\* defaults, with no part of the file applied, and leaves the file as it is.
C12_LoadConfigFallsBackToDefaults ==
    [][LoadStep =>
        /\ pc' # PcCrashed
        /\ ~config_file.exists =>
              /\ config' = default_config
              /\ config_file.writable =>
                    /\ config_file'.exists
                    /\ config_file'.text = json_dump(example_config)
              /\ ~config_file.writable => config_file' = config_file
        /\ (config_file.exists /\ last_check'.raised) =>
              /\ config' = default_config
              /\ config_file' = config_file]_vars

\* C13: a process started on the file that create_example_config wrote has
\* the four thresholds, the check_interval and the alert_cooldown of the
\* in-memory defaults.
C13_ExampleRoundTrip ==
    (/\ last_check.check = "load_config"
     /\ config_file.exists
     /\ config_file.text = json_dump(example_config))
    => /\ config.thresholds = default_config.thresholds
       /\ config.check_interval = default_config.check_interval
       /\ config.alert_cooldown = default_config.alert_cooldown

\* the example file was written by one run and loaded by the next: the
\* configuration carries the example's placeholder password
C13_Witness ==
    /\ last_check.check = "load_config"
    /\ ~last_check.raised
    /\ config_file.exists
    /\ config_file.text = json_dump(example_config)
    /\ config.email.password = example_config.email.password
    /\ config # default_config

\* C14: an operator interrupt ends the process with exit code 0 wherever it
\* arrives after startup: in the alert system during show_status, run_checks
\* or the sleep, and in --test mode; in the dashboard during the initial
\* pause, the collection and display step, and the refresh sleep.
C14_InterruptExitsZero ==
    last_check.check = "KeyboardInterrupt" => pc = PcExit0

\* the alert that a record of the history or of the log is about
KeyOf(r) == IF r.type = "SERVICE" THEN ServiceKey(r.message.arg) ELSE r.type

\* C19: the interrupt never preempts a dispatch: after a handled interrupt no
\* alert is partly processed, that is, no dispatch has begun without running
\* to its end and every alert recorded has its cooldown timestamp written.
C19_InterruptNeverPreemptsDispatch ==
    (last_check.check = "KeyboardInterrupt" /\ pc = PcExit0)
    => /\ last_check.trace = <<>>
       /\ \A i \in DOMAIN alert_history :
             IsAlertRecord(alert_history[i]) =>
                /\ KeyOf(alert_history[i]) \in DOMAIN last_alert_time
                /\ last_alert_time[KeyOf(alert_history[i])]
                      >= alert_history[i].timestamp

\* C15: one kind names an alert everywhere: the type of the record written
\* for a firing, the key of last_alert_time it stamps and the name run_checks
\* returns for it are the same, so a stopped mysql is recorded under its
\* service-qualified kind, distinguishable from the other services.
C15_OneKindEverywhere ==
    (last_check.ret /\ pc \in PcMemory..PcSleep) =>
        /\ last_check.key \in DOMAIN last_alert_time
        /\ alerts_triggered # <<>>
        /\ alerts_triggered[Len(alerts_triggered)] = last_check.key
        /\ \E i \in DOMAIN alert_history :
              /\ IsAlertRecord(alert_history[i])
              /\ alert_history[i].timestamp = last_check.at
              /\ alert_history[i].type = last_check.key

\* the severity of each kind of alert
LevelOf(alert_type) ==
    IF alert_type \in {"DISK", "SERVICE"} THEN "CRITICAL" ELSE "WARNING"

LevelsFixed(records) ==
    \A i \in DOMAIN records :
        IsAlertRecord(records[i]) => records[i].level = LevelOf(records[i].type)

\* C16: the severity is fixed per kind: CPU, MEMORY and SWAP alerts are
\* recorded as WARNING, DISK and SERVICE alerts as CRITICAL, in the history
\* and in the log.
C16_SeverityFixedPerKind ==
    LevelsFixed(alert_history) /\ LevelsFixed(log_file)

\* a run that recorded a memory alert and a service alert
C16_Witness ==
    /\ \E i \in DOMAIN alert_history :
          alert_history[i].type = "MEMORY" /\ alert_history[i].level = "WARNING"
    /\ \E i \in DOMAIN log_file :
          log_file[i].type = "SERVICE" /\ log_file[i].level = "CRITICAL"

\* the channels of a trace in the order in which each was first attempted
RECURSIVE FirstAttempts(_, _)
FirstAttempts(trace, seen) ==
    IF Len(trace) = 0 THEN <<>>
    ELSE IF Head(trace).ch \in seen THEN FirstAttempts(Tail(trace), seen)
    ELSE <<Head(trace).ch>> \o FirstAttempts(Tail(trace), seen \cup {Head(trace).ch})

ChannelEnabled(ch) ==
    CASE ch = "console" -> config.console_alerts
      [] ch = "log" -> TRUE
      [] ch = "email" -> config.email.enabled
      [] ch = "webhook" -> config.webhook.enabled

\* seconds the channels of one dispatch take
DispatchSeconds ==
    (IF config.email.enabled THEN env.de ELSE 0)
    + (IF config.webhook.enabled /\ env.wh # "importerror" THEN env.dw ELSE 0)

\* C17: a firing attempts its channels in the fixed order console, log,
\* email, webhook, skipping the disabled ones, each finishing before the
\* next begins; last_alert_time of the kind is written only after the last
\* channel attempt has returned.
C17_ChannelsInOrderThenTimestamp ==
    last_check.ret =>
        /\ FirstAttempts(last_check.trace, {})
              = SelectSeq(<<"console", "log", "email", "webhook">>, ChannelEnabled)
        /\ last_alert_time[last_check.key] = last_check.at + DispatchSeconds

\* a firing with all four channels, the two network exchanges taking time
C17_Witness ==
    /\ last_check.ret
    /\ config.console_alerts /\ config.email.enabled /\ config.webhook.enabled
    /\ env.de > 0 /\ env.dw > 0 /\ env.wh # "importerror"
    /\ last_alert_time[last_check.key] > last_check.at

\* C18: a webhook delivery that fails (an answer other than 200, an
\* exception, no HTTP library) returns False without raising, leaves a log
\* entry of the failure, and the rest of the check proceeds.
C18_WebhookFailureLogged ==
    (Attempted("webhook") /\ ~AttemptedWith("webhook", "200")) =>
        /\ pc # PcCrashed
        /\ last_check.ret
        /\ \E i \in DOMAIN alert_history :
              /\ alert_history[i].type = "WEBHOOK"
              /\ alert_history[i].timestamp >= last_check.at

\* the entry of last_alert_time for key is written by this step
Written(key) ==
    /\ key \in DOMAIN last_alert_time'
    /\ key \in DOMAIN last_alert_time => last_alert_time'[key] # last_alert_time[key]

\* the check at each position of run_checks
KeyAt(p) ==
    CASE p = PcCpu -> "CPU"
      [] p = PcMemory -> "MEMORY"
      [] p = PcDisk -> "DISK"
      [] p = PcSwap -> "SWAP"
      [] OTHER -> ServiceKey(services_to_check[p - PcService + 1])

\* C20: run_checks evaluates CPU, MEMORY, DISK, SWAP, nginx, ssh, mysql and
\* postgresql in this order, each exactly once per cycle, and returns exactly
\* the kinds that fired, in that order and without duplicates: a kind is in
\* the result iff its last_alert_time entry was written during the call.
C20_RunChecksOrderAndResult ==
    [][CheckStep =>
        /\ last_check'.key = KeyAt(pc)
        /\ pc' = pc + 1
        /\ alerts_triggered' =
              LET before == IF pc = PcCpu THEN <<>> ELSE alerts_triggered
              IN IF Written(KeyAt(pc)) THEN Append(before, KeyAt(pc)) ELSE before]_vars

\* C20 apart from a raising metric probe
C20_ExceptProbeCrash ==
    [][(CheckStep /\ pc' # PcCrashed) =>
        /\ last_check'.key = KeyAt(pc)
        /\ pc' = pc + 1
        /\ alerts_triggered' =
              LET before == IF pc = PcCpu THEN <<>> ELSE alerts_triggered
              IN IF Written(KeyAt(pc)) THEN Append(before, KeyAt(pc)) ELSE before]_vars

\* the latest alert record of a kind in the history
LatestOf(key, i) ==
    /\ IsAlertRecord(alert_history[i])
    /\ KeyOf(alert_history[i]) = key
    /\ \A j \in DOMAIN alert_history :
          (IsAlertRecord(alert_history[j]) /\ KeyOf(alert_history[j]) = key) => j <= i

\* C21 as stated: last_alert_time has an entry for a kind only if an alert of
\* that kind has fired, and the entry is the instant at which can_send_alert
\* permitted the most recent firing of the kind (the instant stamped on its
\* record), also when the dispatch takes time or deliveries fail.
C21_EntryIsPermissionInstant ==
    \A key \in DOMAIN last_alert_time :
        \E i \in DOMAIN alert_history :
            /\ LatestOf(key, i)
            /\ last_alert_time[key] = alert_history[i].timestamp

\* C21 amended: last_alert_time has an entry for a kind only if an alert of
\* that kind has fired, and the entry is the time at which the most recent
\* dispatch of the kind ended: the permission instant plus the time its email
\* and webhook exchanges took, whatever their outcome.
C21_EntryIsEndOfDispatch ==
    \A key \in DOMAIN last_alert_time :
        \E i \in DOMAIN alert_history :
            /\ LatestOf(key, i)
            /\ last_alert_time[key] = alert_history[i].timestamp + DispatchSeconds

\* a firing whose email failed after an exchange that took time: the entry
\* is later than the record
C21_Witness ==
    /\ last_check.ret
    /\ AttemptedWith("email", "fail")
    /\ env.de > 0
    /\ last_check.key \in DOMAIN last_alert_time
    /\ last_alert_time[last_check.key] > last_check.at

Severities == {"INFO", "WARNING", "CRITICAL"}

\* C22: every record appended to alert_history or written to the log, by a
\* check or by the email and webhook channels on success or failure, has a
\* severity in {INFO, WARNING, CRITICAL}.
C22_SeverityInRange ==
    /\ \A i \in DOMAIN alert_history : alert_history[i].level \in Severities
    /\ \A i \in DOMAIN log_file : log_file[i].level \in Severities

\* C23: for a config file that is a JSON object giving only some of the
\* options (a thresholds object naming a subset of the metrics, an email or
\* webhook object with a subset of fields), each omitted value takes its
\* default and a full cycle (show_status, run_checks) completes without an
\* uncaught error.
C23_OmittedValuesDefaultAndCycleCompletes ==
    (pc # PcCall \/ last_check.check = "load_config") =>
        /\ \A metric \in Metrics :
              /\ ~Missing(metric)
              /\ \A given \in Given(config_file.text, "thresholds") :
                    metric \notin DOMAIN given
                        => config.thresholds[metric] = DefaultThresholds[metric]
        /\ Given(config_file.text, "thresholds") = {}
                => config.thresholds = DefaultThresholds
        /\ "password" \in DOMAIN config.email
        /\ "url" \in DOMAIN config.webhook
        /\ pc = PcCrashed => last_check.raised

\* the part of C23 that holds: options omitted at the top level take their
\* defaults
C23_TopLevelDefaults ==
    (pc # PcCall \/ last_check.check = "load_config") =>
        /\ Given(config_file.text, "thresholds") = {}
                => config.thresholds = DefaultThresholds
        /\ Given(config_file.text, "alert_cooldown") = {}
                => config.alert_cooldown = DefaultCooldown
        /\ Given(config_file.text, "email") = {} => config.email = default_config.email
        /\ Given(config_file.text, "webhook") = {}
                => config.webhook = default_config.webhook
        /\ config.check_interval = DefaultInterval

\* C24: every check cycle that starts terminates: each blocking step returns
\* or fails within a bounded time, so run_checks returns (or, as in C11, a
\* raising probe ends the process), and after the sleep the loop begins the
\* next cycle - for every channel configuration, also with email enabled
\* against an SMTP server that stops responding.
C24_CycleTerminates ==
    /\ (pc = PcStatus) ~> (pc \in {PcSleep, PcCrashed})
    /\ (pc = PcSleep /\ now + config.check_interval <= MaxTime) ~> (pc = PcStatus)

\* C24 for the runs in which the SMTP server answers or refuses
C24_CycleTerminatesUnlessSmtpHangs ==
    /\ (pc = PcStatus /\ env.smtp # "hang") ~> (pc \in {PcSleep, PcCrashed})
    /\ (pc = PcSleep /\ now + config.check_interval <= MaxTime) ~> (pc = PcStatus)

\* the last min(n, HistoryCap) of the n lines of the log
LogTail ==
    LET n == Len(log_file)
        len == IF n <= HistoryCap THEN n ELSE HistoryCap
    IN SubSeq(log_file, n - len + 1, n)

\* a step appends exactly one whole line at the end of the log, stamped
\* with the time of the call, or leaves the log as it is
LogGrowsByOneLine ==
    \/ log_file' = log_file
    \/ /\ Len(log_file') = Len(log_file) + 1
       /\ SubSeq(log_file', 1, Len(log_file)) = log_file
       /\ log_file'[Len(log_file')].timestamp = now'

\* C25: the history mirrors the log: while no log write has failed,
\* alert_history equals the last min(n, 100) of the n lines appended to the
\* log, in the same order with the same timestamp, level, type and message;
\* the log only grows by whole lines appended at its end, one per log_alert
\* call.
C25_HistoryMirrorsLog ==
    /\ [](env.log_writable => alert_history = LogTail)
    /\ [][(env.log_writable /\ last_check'.check = "log_alert" /\ now' # now)
           => (LogGrowsByOneLine /\ log_file' # log_file)]_vars
    /\ [][LogGrowsByOneLine]_vars

\* more lines in the log than the history keeps: the history is the log's
\* last hundred lines
C25_Witness ==
    /\ env.log_writable
    /\ Len(log_file) = HistoryCap + 2
    /\ Len(alert_history) = HistoryCap
    /\ alert_history[1] = log_file[3]

====
